---- MODULE Spec2Model ----
(***************************************************************************)
(* The mock-interview application of src/app.py as a state machine.        *)
(*                                                                         *)
(* The application is a Streamlit script: every user interaction and every *)
(* st.rerun() executes the script from its first line to its last (or to   *)
(* the st.rerun() that ends the run early).  One script run is one action. *)
(* st.session_state is the record ss; the values of the sidebar widgets    *)
(* held by the browser are the record widget; the keyed answer text area   *)
(* is draft; time.time() is now.                                           *)
(*                                                                         *)
(* ask_chat is modelled twice: step by step (the variable chat, the        *)
(* specification SpecChat), and, inside a script run, by the set of        *)
(* strings it can return (AskChatReturns); C10_State ties the two          *)
(* together.                                                               *)
(***************************************************************************)
EXTENDS Integers, Sequences, FiniteSets, TLC

(***************************************************************************)
(* Bounds of the model.                                                    *)
(***************************************************************************)
\* How many outcomes of random.shuffle a script run draws from.
NumShuffles == 2
\* Clock units per second: time.time() is a float, int() truncates it.
Hz == 2
\* The clock units one Tick lets pass, and the horizon of the clock.
TickStep == 61
MaxTime == 184
\* The count of feedback requests is kept up to this number.
MaxFeedbackCalls == 2
\* How many times the user changes a sidebar widget once the page is set up.
MaxChanges == 1
\* How many times the user edits an answer text area.
MaxTyped == 1
\* The latest clock reading the timer display is computed for, in clock units.
MaxClock == 600

(***************************************************************************)
(* Values.                                                                 *)
(***************************************************************************)
\* Python's None for the integer fields (current_q, start_time).
None == -1
\* Python's None for the string fields (candidate_name, feedback).  Strings
\* are sequences of one-character strings; no character is "None".
NoneText == <<"None">>

Min(a, b) == IF a < b THEN a ELSE b
Max(a, b) == IF a > b THEN a ELSE b

\* bool(x) of a string-or-None value and of a number-or-None value.
TruthyText(t) == t # NoneText /\ t # <<>>
TruthyNum(n) == n # None /\ n # 0

\* The character that stands for the cross-mark emoji of the failure strings.
CrossMark == "[x]"

IsSpace(c) == c \in {" ", "\t", "\n"}

RECURSIVE LStrip(_)
LStrip(s) == IF s # <<>> /\ IsSpace(Head(s)) THEN LStrip(Tail(s)) ELSE s

RECURSIVE RStrip(_)
RStrip(s) ==
    IF s # <<>> /\ IsSpace(s[Len(s)]) THEN RStrip(SubSeq(s, 1, Len(s) - 1)) ELSE s

\* str.strip()
Strip(s) == RStrip(LStrip(s))

\* The first whitespace-delimited word of s and what follows it.
RECURSIVE FirstWord(_)
FirstWord(s) ==
    IF s = <<>> \/ IsSpace(Head(s)) THEN <<>> ELSE <<Head(s)>> \o FirstWord(Tail(s))

\* str.split(): the whitespace-delimited words of s.
RECURSIVE Split(_)
Split(s) ==
    LET t == LStrip(s)
        w == FirstWord(t)
    IN IF t = <<>> THEN <<>> ELSE <<w>> \o Split(SubSeq(t, Len(w) + 1, Len(t)))

LowerChars == <<"a", "e", "l", "n", "o", "k">>
UpperChars == <<"A", "E", "L", "N", "O", "K">>
IndexIn(c, cs) == IF \E i \in 1..Len(cs) : cs[i] = c
                  THEN CHOOSE i \in 1..Len(cs) : cs[i] = c ELSE 0
\* str.isalpha() of one character.
IsAlpha(c) == IndexIn(c, LowerChars) > 0 \/ IndexIn(c, UpperChars) > 0
ToUpper(c) == IF IndexIn(c, LowerChars) > 0 THEN UpperChars[IndexIn(c, LowerChars)] ELSE c
ToLower(c) == IF IndexIn(c, UpperChars) > 0 THEN LowerChars[IndexIn(c, UpperChars)] ELSE c

\* str.title(): a letter that follows a letter is lowered, any other letter raised.
Title(s) ==
    [i \in 1..Len(s) |->
        IF i > 1 /\ IsAlpha(s[i - 1]) THEN ToLower(s[i]) ELSE ToUpper(s[i])]

(***************************************************************************)
(* Program constants.                                                      *)
(***************************************************************************)
ModeInterview == "Start Mock Interview"
ModePractice == "Practice Questions & Answers"
ModeAnalytics == "Interview Analytics"
ModeOptions == <<ModeInterview, ModePractice, ModeAnalytics>>

CountOptions == <<3, 5, 7, 10>>
TimeOptions == <<60, 90, 120, 180>>
CategoryOptions == <<"General", "Technical", "Behavioral", "Problem Solving">>
DifficultyOptions == <<"Beginner", "Intermediate", "Advanced">>

\* Each question text is abbreviated to two characters (bank, position).
QUESTION_CATEGORIES ==
    [c \in {"General", "Technical", "Behavioral", "Problem Solving"} |->
        CASE c = "General" ->
                << <<"G", "1">>, <<"G", "2">>, <<"G", "3">>, <<"G", "4">>, <<"G", "5">>, <<"G", "6">> >>
          [] c = "Technical" ->
                << <<"T", "1">>, <<"T", "2">>, <<"T", "3">>, <<"T", "4">>, <<"T", "5">>, <<"T", "6">> >>
          [] c = "Behavioral" ->
                << <<"B", "1">>, <<"B", "2">>, <<"B", "3">>, <<"B", "4">>, <<"B", "5">> >>
          [] OTHER ->
                << <<"P", "1">>, <<"P", "2">>, <<"P", "3">>, <<"P", "4">>, <<"P", "5">> >>]

\* time_multiplier of each difficulty, in tenths (1.5, 1.0, 0.8).
DIFFICULTY_LEVELS ==
    [d \in {"Beginner", "Intermediate", "Advanced"} |->
        CASE d = "Beginner" -> 15 [] d = "Intermediate" -> 10 [] OTHER -> 8]

\* The options of the sidebar the user picks from.
CountChoices == {CountOptions[1], CountOptions[2]}
TimeChoices == {TimeOptions[1], TimeOptions[2]}
CategoryChoices == {CategoryOptions[1], CategoryOptions[3]}
DifficultyChoices == {DifficultyOptions[1], DifficultyOptions[2]}

\* What the user can leave in the answer text area.
AnswerTexts == {<<>>, <<" ">>, <<"a", "n", "n">>}

VARIABLES
    client,          \* the module-level client: TRUE an OpenAI client, FALSE None
    ss,              \* st.session_state
    widget,          \* the values of the sidebar widgets
    draft,           \* the answer text area: its key (q, d), its text; q = None: no such widget
    now,             \* time.time(), in clock units
    rerun,           \* 0: no script run is requested; 1, 2: the st.rerun() request pending
    last,            \* the last script run: the button it was given, the handler it ran,
                     \* the ask_chat calls its practice page made (extract_calls and
                     \* feedback_calls count those of the interview page)
    adjusted_time,   \* history: adjusted_time as the Start handler computed it
    extract_calls,   \* history: calls of extract_name since Start
    feedback_calls,  \* history: feedback requests since the attempt was completed
    pause_remaining, \* history: the remaining time the run that paused displayed
    changes,         \* history: the sidebar changes the user has made
    typed,           \* history: the edits of an answer the user has made
    topic,           \* the "Topic or Skill" text input of the practice page
    chat,            \* one ask_chat call, step by step
    call             \* one application of a function of the script: its input, its result

vars == <<client, ss, widget, draft, now, rerun, last, adjusted_time,
          extract_calls, feedback_calls, pause_remaining, changes, typed, topic,
          chat, call>>

sessionVars == <<ss, widget, draft, now, rerun, last, adjusted_time,
                 extract_calls, feedback_calls, pause_remaining, changes, typed, topic>>


(***************************************************************************)
(* ask_chat (src/app.py 101-119).                                          *)
(***************************************************************************)
UnavailableString ==
    <<CrossMark, " ", "O", "p", "e", "n", "A", "I", " ", "c", "l", "i", "e", "n", "t",
      " ", "n", "o", "t", " ", "a", "v", "a", "i", "l", "a", "b", "l", "e", ".", " ",
      "P", "l", "e", "a", "s", "e", " ", "c", "h", "e", "c", "k", " ", "y", "o", "u",
      "r", " ", "A", "P", "I", " ", "k", "e", "y", " ", "a", "n", "d", " ", "c", "o",
      "n", "n", "e", "c", "t", "i", "o", "n", ".">>

Digits == <<"0", "1", "2", "3", "4", "5", "6", "7", "8", "9">>

\* f"(cross mark) Error after {max_retries} attempts: {str(e)}"
ErrorString(max_retries, e) ==
    <<CrossMark, " ", "E", "r", "r", "o", "r", " ", "a", "f", "t", "e", "r", " ">>
    \o <<Digits[max_retries + 1]>>
    \o <<" ", "a", "t", "t", "e", "m", "p", "t", "s", ":", " ">> \o e

\* "x in s" for a one-character x.
Contains(s, c) == \E i \in 1..Len(s) : s[i] = c

\* What message.content of a response can be: None, blank, a name.
ChatContents == {NoneText, <<" ">>, <<" ", "a", "n", "n", "\n">>}

\* str(e) of the exceptions client.chat.completions.create can raise.
ChatErrors == {<<"d", "o", "w", "n">>}

\* str(e) of the AttributeError that None.strip() raises inside the try.
StripOfNone == <<"n", "o", " ", "s", "t", "r", "i", "p">>

\* The call sites of ask_chat and the max_retries each passes.
CallSites == {"coach", "extract_name", "calculate_score", "practice", "feedback"}
MaxRetriesOf(site) == IF site = "extract_name" THEN 2 ELSE 3

ChatIdle ==
    [pc |-> "idle", site |-> "coach", max_retries |-> 3, attempt |-> 0,
     log |-> <<>>, errors |-> <<>>, ret |-> NoneText]

\* An entry of ask_chat without the guard on the client.
ChatEnterWithoutGuard(site) ==
    [ChatIdle EXCEPT !.site = site, !.max_retries = MaxRetriesOf(site),
                     !.pc = "request"]

\* Lines 103-106: the guard on the client, then the first iteration of the loop.
ChatEnter(site) ==
    LET c == [ChatIdle EXCEPT !.site = site, !.max_retries = MaxRetriesOf(site)]
    IN IF ~client
       THEN [c EXCEPT !.pc = "returned", !.ret = UnavailableString]
       ELSE IF 0 < c.max_retries
            THEN [c EXCEPT !.pc = "request"]
            ELSE [c EXCEPT !.pc = "returned"]

\* An except clause that compares the attempt with max_retries: no attempt is the
\* last one, and the loop runs out.
ExceptClauseOffByOne(c, e) ==
    LET c1 == [c EXCEPT !.log = Append(@, "create"), !.errors = Append(@, e)]
    IN IF c.attempt = c.max_retries
       THEN [c1 EXCEPT !.pc = "returned", !.ret = ErrorString(c.max_retries, e)]
       ELSE LET c2 == [c1 EXCEPT !.log = Append(@, "sleep"), !.attempt = @ + 1]
            IN IF c2.attempt < c2.max_retries
               THEN c2
               ELSE [c2 EXCEPT !.pc = "returned"]

\* Lines 116-119: the except clause of attempt c.attempt, which raised e.
ExceptClause(c, e) ==
    LET c1 == [c EXCEPT !.log = Append(@, "create"), !.errors = Append(@, e)]
    IN IF c.attempt = c.max_retries - 1
       THEN [c1 EXCEPT !.pc = "returned", !.ret = ErrorString(c.max_retries, e)]
       ELSE LET c2 == [c1 EXCEPT !.log = Append(@, "sleep"), !.attempt = @ + 1]
            IN IF c2.attempt < c2.max_retries
               THEN c2
               ELSE [c2 EXCEPT !.pc = "returned"]

\* A try clause that keeps the text and carries on with the loop.
TryClauseKeepsTrying(c, content) ==
    LET c1 == [c EXCEPT !.log = Append(@, "create"), !.attempt = @ + 1,
                        !.ret = Strip(content)]
    IN IF c1.attempt < c1.max_retries
       THEN c1
       ELSE [c1 EXCEPT !.pc = "returned"]

\* Lines 108-114: the request came back with message.content = content.
TryClause(c, content) ==
    IF content = NoneText
    THEN ExceptClause(c, StripOfNone)
    ELSE [c EXCEPT !.log = Append(@, "create"), !.pc = "returned",
                   !.ret = Strip(content)]

\* The strings a call of ask_chat with this max_retries can return.
AskChatReturns(max_retries) ==
    IF ~client
    THEN {UnavailableString}
    ELSE {Strip(c) : c \in ChatContents \ {NoneText}}
         \cup {ErrorString(max_retries, e) : e \in ChatErrors \cup {StripOfNone}}

\* A caller calls ask_chat.
ChatCall(site) ==
    /\ chat.pc \in {"idle", "returned"}
    /\ chat' = ChatEnter(site)
    /\ UNCHANGED <<client, sessionVars, call>>

\* One request of the loop is answered.
ChatResponse(content) ==
    /\ chat.pc = "request"
    /\ chat' = TryClause(chat, content)
    /\ UNCHANGED <<client, sessionVars, call>>

\* One request of the loop raises.
ChatException(e) ==
    /\ chat.pc = "request"
    /\ chat' = ExceptClause(chat, e)
    /\ UNCHANGED <<client, sessionVars, call>>

(***************************************************************************)
(* extract_name (src/app.py 121-142); name is what ask_chat returned.      *)
(***************************************************************************)
Candidate == <<"C", "a", "n", "d", "i", "d", "a", "t", "e">>

RECURSIVE KeepNameChars(_)
KeepNameChars(s) ==
    IF s = <<>> THEN <<>>
    ELSE (IF IsAlpha(Head(s)) \/ Head(s) = "-" THEN <<Head(s)>> ELSE <<>>)
         \o KeepNameChars(Tail(s))

\* An extraction that returns the cleaned token whatever is left of it.
ExtractNameUnchecked(answer_text, name) ==
    IF Strip(answer_text) = <<>>
    THEN Candidate
    ELSE IF TruthyText(name) /\ Len(Split(name)) <= 2
         THEN Title(KeepNameChars(Split(name)[1]))
         ELSE Candidate

extract_name(answer_text, name) ==
    IF Strip(answer_text) = <<>>
    THEN Candidate
    ELSE IF TruthyText(name) /\ Len(Split(name)) <= 2
         THEN LET clean_name == KeepNameChars(Split(name)[1])
              IN IF clean_name # <<>> THEN Title(clean_name) ELSE Candidate
         ELSE Candidate


(***************************************************************************)
(* calculate_score (src/app.py 144-183); response is what ask_chat         *)
(* returned.  json.loads is modelled for objects whose keys are strings    *)
(* and whose values are strings or integers; any other text is a          *)
(* JSONDecodeError.                                                        *)
(***************************************************************************)
JsonError == [ok |-> FALSE, value |-> <<>>, rest |-> <<>>]

IsDigit(c) == \E i \in 1..Len(Digits) : Digits[i] = c

\* The longest prefix of s made of digits.
RECURSIVE LeadingDigits(_)
LeadingDigits(s) ==
    IF s = <<>> \/ ~IsDigit(Head(s)) THEN <<>> ELSE <<Head(s)>> \o LeadingDigits(Tail(s))

\* The text of s before its first double quote.
RECURSIVE UpToQuote(_)
UpToQuote(s) ==
    IF s = <<>> \/ Head(s) = "\"" THEN <<>> ELSE <<Head(s)>> \o UpToQuote(Tail(s))

\* A JSON string at the head of s (the texts of the model hold no escapes).
JsonString(s) ==
    IF s = <<>> \/ Head(s) # "\"" THEN JsonError
    ELSE LET body == UpToQuote(Tail(s))
         IN IF Len(body) + 2 > Len(s) THEN JsonError
            ELSE [ok |-> TRUE, value |-> body, rest |-> SubSeq(s, Len(body) + 3, Len(s))]

\* A JSON integer at the head of s: 0, or digits that do not start with 0.
JsonNumber(s) ==
    LET ds == LeadingDigits(s)
    IN IF ds = <<>> \/ (Len(ds) > 1 /\ Head(ds) = "0") THEN JsonError
       ELSE [ok |-> TRUE, value |-> ds, rest |-> SubSeq(s, Len(ds) + 1, Len(s))]

JsonValue(s) == IF s # <<>> /\ Head(s) = "\"" THEN JsonString(s) ELSE JsonNumber(s)

\* The members of an object and its closing brace; members holds those read.
RECURSIVE JsonMembers(_, _)
JsonMembers(s, members) ==
    LET key == JsonString(LStrip(s))
        colon == LStrip(key.rest)
        val == IF key.ok /\ colon # <<>> /\ Head(colon) = ":"
               THEN JsonValue(LStrip(Tail(colon))) ELSE JsonError
        next == LStrip(val.rest)
        read == Append(members, <<key.value, val.value>>)
    IN IF ~val.ok \/ next = <<>> THEN JsonError
       ELSE IF Head(next) = "}" THEN [ok |-> TRUE, value |-> read, rest |-> Tail(next)]
       ELSE IF Head(next) = "," THEN JsonMembers(Tail(next), read)
       ELSE JsonError

\* json.loads(s) for a text that starts with "{": the object's members, or an
\* error; text after the closing brace other than whitespace is an error.
JsonLoads(s) ==
    LET inner == LStrip(Tail(s))
        object == IF inner # <<>> /\ Head(inner) = "}"
                  THEN [ok |-> TRUE, value |-> <<>>, rest |-> Tail(inner)]
                  ELSE JsonMembers(inner, <<>>)
    IN IF object.ok /\ LStrip(object.rest) = <<>>
       THEN [ok |-> TRUE, value |-> object.value, rest |-> <<>>]
       ELSE JsonError

NoAnswerFeedback ==
    <<"N", "o", " ", "a", "n", "s", "w", "e", "r", " ", "p", "r", "o", "v", "i", "d",
      "e", "d">>

UnableFeedback ==
    <<"U", "n", "a", "b", "l", "e", " ", "t", "o", " ", "a", "n", "a", "l", "y", "z",
      "e", " ", "a", "n", "s", "w", "e", "r", " ", "a", "t", " ", "t", "h", "i", "s",
      " ", "t", "i", "m", "e">>

\* The keys of complexity_map.
complexity_map == {"Beginner", "Intermediate", "Advanced"}

\* response.startswith('{')
StartsWithBrace(response) == response # <<>> /\ Head(response) = "{"

\* The dict calculate_score returns: the parsed object, or a score and a feedback.
\* difficulty is looked up in complexity_map before the try block: a KeyError
\* for any other value reaches the caller.
calculate_score(answer, difficulty, response) ==
    IF Strip(answer) = <<>>
    THEN [parsed |-> FALSE, score |-> 0, feedback |-> NoAnswerFeedback]
    ELSE IF difficulty \notin complexity_map
    THEN [raised |-> "KeyError"]
    ELSE IF StartsWithBrace(response)
         THEN IF JsonLoads(response).ok
              THEN [parsed |-> TRUE, object |-> JsonLoads(response).value]
              ELSE [parsed |-> FALSE, score |-> 5, feedback |-> UnableFeedback]
         ELSE [parsed |-> FALSE, score |-> 5, feedback |-> response]

(***************************************************************************)
(* The script (src/app.py 651-1261), one run at a time.                    *)
(*                                                                         *)
(* A run reads st.session_state (s), the sidebar widgets (w), the answer   *)
(* text area as the browser holds it (d) and the button that was clicked.  *)
(* Each part of the script yields the set of outcomes the run can have:    *)
(* the session state it leaves, the text area it rendered, whether it      *)
(* slept, whether it ended in st.rerun(), and which handler ran.           *)
(***************************************************************************)
NoDraft == [q |-> None, d |-> "", text |-> <<>>]

\* No function of the script has been applied on its own yet.
NoCall == [fn |-> "none"]

\* defaults of init_session_state; interview_stats is never read or written.
SessionDefaults ==
    [mode |-> ModeInterview, candidate_name |-> NoneText, current_q |-> None,
     questions |-> <<>>, answers |-> <<>>, time_limit |-> 90, start_time |-> None,
     num_questions |-> 5, feedback |-> NoneText, category |-> "General",
     difficulty |-> "Intermediate", paused |-> FALSE, auto_refresh |-> TRUE]

\* The sidebar widgets as first rendered: index=0, index=1, index=1, the first
\* category, index=1, value=True.
WidgetDefaults ==
    [mode |-> ModeOptions[1], num_questions |-> CountOptions[2],
     time_limit |-> TimeOptions[2], category |-> CategoryOptions[1],
     difficulty |-> DifficultyOptions[2], auto_refresh |-> TRUE]

Outcome(s, area, handler) ==
    [ss |-> s, draft |-> area, slept |-> 0, rerun |-> FALSE, handler |-> handler,
     extracted |-> FALSE, requested |-> FALSE, asked |-> 0,
     adjusted |-> adjusted_time, pause_rem |-> pause_remaining]

\* int(time.time() - st.session_state.start_time)
Elapsed(s) == (now - s.start_time) \div Hz

\* max(0, st.session_state.time_limit - elapsed)
Remaining(s) == Max(0, s.time_limit - Elapsed(s))

\* Lines 923-924 for a time limit, a start time and a reading of the clock.
RemainingAt(time_limit, start_time, clock) ==
    Max(0, time_limit - ((clock - start_time) \div Hz))

\* A display whose bands include their lower boundary.
TimerClassInclusive(remaining) ==
    IF remaining >= 30 THEN "timer-normal"
    ELSE IF remaining >= 10 THEN "timer-warning"
    ELSE "timer-danger"

\* Lines 927-935: the class of the timer display.
TimerClass(remaining) ==
    IF remaining > 30 THEN "timer-normal"
    ELSE IF remaining > 10 THEN "timer-warning"
    ELSE "timer-danger"

\* Lines 677-681: the condition of the auto-refresh.
AutoRefreshActive(s) ==
    /\ s.current_q # None
    /\ s.current_q < Len(s.questions)
    /\ TruthyNum(s.start_time)
    /\ ~s.paused
    /\ s.auto_refresh

\* Lines 683-688: sleep one second, rerun; nothing below is reached.
AutoRefresh(s) ==
    {[Outcome(s, NoDraft, "refresh") EXCEPT !.slept = 1, !.rerun = TRUE]}

\* Lines 694-723: the sidebar writes the widgets' values into the session.
Sidebar(s, w) ==
    LET s1 == [s EXCEPT !.mode = w.mode]
    IN IF w.mode = ModeInterview
       THEN [s1 EXCEPT !.num_questions = w.num_questions,
                       !.time_limit = w.time_limit,
                       !.category = w.category,
                       !.difficulty = w.difficulty,
                       !.auto_refresh = w.auto_refresh]
       ELSE s1

\* random.shuffle(available_questions): outcome k of the bounded family.
Shuffled(bank, k) ==
    IF k = 0 THEN bank
    ELSE IF k = 1 THEN [i \in 1..Len(bank) |-> bank[Len(bank) + 1 - i]]
    ELSE [i \in 1..Len(bank) |-> bank[((i - 1 + (k - 1)) % Len(bank)) + 1]]

\* A selection that takes num_questions entries, starting over at the end of
\* the bank.
SelectAround(available_questions, num_questions) ==
    [i \in 1..num_questions |->
        available_questions[((i - 1) % Len(available_questions)) + 1]]

\* Line 880: available_questions[:num_questions]
SelectQuestions(available_questions, num_questions) ==
    SubSeq(available_questions, 1, Min(num_questions, Len(available_questions)))

\* int(st.session_state.time_limit * time_multiplier)
AdjustedTime(time_limit, difficulty) ==
    (time_limit * DIFFICULTY_LEVELS[difficulty]) \div 10

\* A Start handler that keeps what the session holds of an earlier attempt.
StartKeepsLeftovers(s) ==
    {LET available_questions == Shuffled(QUESTION_CATEGORIES[s.category], k)
         selected_questions == SelectQuestions(available_questions, s.num_questions)
         adjusted == AdjustedTime(s.time_limit, s.difficulty)
         s1 == [s EXCEPT !.questions = selected_questions,
                         !.current_q = 0,
                         !.start_time = now,
                         !.time_limit = adjusted]
     IN [Outcome(s1, NoDraft, "start") EXCEPT !.rerun = TRUE, !.adjusted = adjusted,
                                              !.pause_rem = None]
     : k \in 0..(NumShuffles - 1)}

\* Lines 875-896: the Start Interview handler.
StartInterview(s) ==
    {LET available_questions == Shuffled(QUESTION_CATEGORIES[s.category], k)
         selected_questions == SelectQuestions(available_questions, s.num_questions)
         adjusted == AdjustedTime(s.time_limit, s.difficulty)
         s1 == [s EXCEPT !.questions = selected_questions,
                         !.current_q = 0,
                         !.answers = <<>>,
                         !.candidate_name = NoneText,
                         !.start_time = now,
                         !.feedback = NoneText,
                         !.time_limit = adjusted,
                         !.paused = FALSE]
     IN [Outcome(s1, NoDraft, "start") EXCEPT !.rerun = TRUE, !.adjusted = adjusted,
                                              !.pause_rem = None]
     : k \in 0..(NumShuffles - 1)}

\* The value of the text area keyed f"answer_{q_index}_{difficulty}", which is
\* also st.session_state.get(that key, "").
TextArea(d, q_index, difficulty) ==
    IF d.q = q_index /\ d.d = difficulty THEN d.text ELSE <<>>

\* A record that keeps the question as it was displayed, name and all.
AnswerRecordAsDisplayed(question, display_question, answer, time_taken, s) ==
    [question |-> display_question, display_question |-> display_question,
     answer |-> answer, time_taken |-> time_taken,
     category |-> s.category, difficulty |-> s.difficulty]

\* Lines 952-959, 992-999, 1019-1026: the dict appended to answers.
AnswerRecord(question, display_question, answer, time_taken, s) ==
    [question |-> question, display_question |-> display_question,
     answer |-> answer, time_taken |-> time_taken,
     category |-> s.category, difficulty |-> s.difficulty]

\* The name extracted from the answer to every question.
WithNameAtEveryQuestion(s, q_index, answer, area, handler) ==
    IF Strip(answer) # <<>>
    THEN {[Outcome([s EXCEPT !.candidate_name = extract_name(answer, name)],
                   area, handler) EXCEPT !.extracted = TRUE, !.asked = 1]
          : name \in AskChatReturns(2)}
    ELSE {Outcome(s, area, handler)}

\* Lines 961-963 and 1001-1003: the name is extracted from the first answer.
WithName(s, q_index, answer, area, handler) ==
    IF q_index = 0 /\ Strip(answer) # <<>>
    THEN {[Outcome([s EXCEPT !.candidate_name = extract_name(answer, name)],
                   area, handler) EXCEPT !.extracted = TRUE, !.asked = 1]
          : name \in AskChatReturns(2)}
    ELSE {Outcome(s, area, handler)}

\* Lines 965-966, 1006-1007, 1028-1029: on to the next question.
Advance(s) == [s EXCEPT !.current_q = @ + 1, !.start_time = now]

\* Lines 946-968: the time is up.
AutoAdvance(s, d, q_index, current_question, display_question) ==
    LET current_answer == TextArea(d, q_index, s.difficulty)
        s1 == [s EXCEPT !.answers =
                  Append(@, AnswerRecord(current_question, display_question,
                                         current_answer, s.time_limit, s))]
    IN {[o EXCEPT !.ss = Advance(o.ss), !.slept = 1, !.rerun = TRUE, !.pause_rem = None]
        : o \in WithName(s1, q_index, current_answer, NoDraft, "timeout")}

\* A Submit handler that also resumes the session.
SubmitResumes(s, area, q_index, current_question, display_question) ==
    LET user_answer == area.text
        time_taken == IF TruthyNum(s.start_time) THEN Elapsed(s) ELSE 0
        s1 == [s EXCEPT !.paused = FALSE,
                        !.answers =
                  Append(@, AnswerRecord(current_question, display_question,
                                         user_answer, time_taken, s))]
    IN {[o EXCEPT !.ss = Advance(o.ss), !.rerun = TRUE, !.pause_rem = None]
        : o \in WithName(s1, q_index, user_answer, area, "submit")}

\* Lines 990-1008: the Submit Answer handler.
SubmitAnswer(s, area, q_index, current_question, display_question) ==
    LET user_answer == area.text
        time_taken == IF TruthyNum(s.start_time) THEN Elapsed(s) ELSE 0
        s1 == [s EXCEPT !.answers =
                  Append(@, AnswerRecord(current_question, display_question,
                                         user_answer, time_taken, s))]
    IN {[o EXCEPT !.ss = Advance(o.ss), !.rerun = TRUE, !.pause_rem = None]
        : o \in WithName(s1, q_index, user_answer, area, "submit")}

\* Lines 1012-1015: the Pause / Resume button.
PauseResume(s, area, timed) ==
    {[Outcome([s EXCEPT !.paused = ~s.paused], area,
              IF s.paused THEN "resume" ELSE "pause")
        EXCEPT !.rerun = TRUE,
               !.pause_rem = IF s.paused THEN pause_remaining
                             ELSE IF timed THEN Remaining(s) ELSE None]}

\* A Skip handler that moves on without a record.
SkipWithoutRecord(s, area, q_index, current_question, display_question) ==
    {[Outcome([s EXCEPT !.current_q = @ + 1, !.start_time = now], area, "skip")
        EXCEPT !.rerun = TRUE, !.pause_rem = None]}

\* A Skip handler that records the text of the text area.
SkipKeepsDraft(s, area, q_index, current_question, display_question) ==
    LET time_taken == IF TruthyNum(s.start_time) THEN Elapsed(s) ELSE 0
        s1 == [s EXCEPT !.answers =
                  Append(@, AnswerRecord(current_question, display_question,
                                         area.text, time_taken, s))]
    IN {[Outcome(Advance(s1), area, "skip") EXCEPT !.rerun = TRUE, !.pause_rem = None]}

\* Lines 1018-1030: the Skip Question handler.
SkipQuestion(s, area, q_index, current_question, display_question) ==
    LET time_taken == IF TruthyNum(s.start_time) THEN Elapsed(s) ELSE 0
        s1 == [s EXCEPT !.answers =
                  Append(@, AnswerRecord(current_question, display_question,
                                         <<>>, time_taken, s))]
    IN {[Outcome(Advance(s1), area, "skip") EXCEPT !.rerun = TRUE, !.pause_rem = None]}

\* A timer check that does not look at paused.
TimeIsUpWhilePaused(s) ==
    TruthyNum(s.start_time) /\ Remaining(s) = 0

\* Lines 922 and 946: the timer is checked, and it has run out.
TimeIsUp(s) == TruthyNum(s.start_time) /\ ~s.paused /\ Remaining(s) = 0

\* A question in progress whose timeout handler does not end the run: the
\* Submit or Skip click of the same run is handled as well.
InProgressTimeoutFallsThrough(s, d, clicked) ==
    LET q_index == s.current_q
        current_question == s.questions[q_index + 1]
        area == [q |-> q_index, d |-> s.difficulty,
                 text |-> TextArea(d, q_index, s.difficulty)]
        Clicked(t) ==
            IF clicked = "submit"
            THEN SubmitAnswer(t, area, q_index, current_question, current_question)
            ELSE IF clicked = "skip"
            THEN SkipQuestion(t, area, q_index, current_question, current_question)
            ELSE IF clicked = "pause"
            THEN PauseResume(t, area, TruthyNum(t.start_time) /\ ~t.paused)
            ELSE {Outcome(t, area, "question")}
    IN IF TimeIsUp(s)
       THEN UNION {IF clicked \in {"submit", "skip"} THEN Clicked(o.ss) ELSE {o}
                   : o \in AutoAdvance(s, d, q_index, current_question, current_question)}
       ELSE Clicked(s)

\* Lines 899-1030: a question is in progress.
InProgress(s, d, clicked) ==
    LET q_index == s.current_q
        current_question == s.questions[q_index + 1]
        display_question ==
            IF TruthyText(s.candidate_name) /\ q_index > 0
            THEN s.candidate_name \o <<",", " ">> \o current_question
            ELSE current_question
        timed == TruthyNum(s.start_time) /\ ~s.paused
        area == [q |-> q_index, d |-> s.difficulty,
                 text |-> TextArea(d, q_index, s.difficulty)]
    IN IF TimeIsUp(s)
       THEN AutoAdvance(s, d, q_index, current_question, display_question)
       ELSE IF clicked = "submit"
       THEN SubmitAnswer(s, area, q_index, current_question, display_question)
       ELSE IF clicked = "pause"
       THEN PauseResume(s, area, timed)
       ELSE IF clicked = "skip"
       THEN SkipQuestion(s, area, q_index, current_question, display_question)
       ELSE {Outcome(s, area, "question")}

\* Lines 1098-1149: the feedback is requested unless the session holds one.
WithFeedback(s) ==
    IF ~TruthyText(s.feedback)
    THEN {[Outcome([s EXCEPT !.feedback = text], NoDraft, "completed")
             EXCEPT !.requested = TRUE, !.asked = 1] : text \in AskChatReturns(3)}
    ELSE {Outcome(s, NoDraft, "completed")}

\* A count that takes every record for an answered one.
CountRecords(answers) == Len(answers)

\* Line 1039: the records whose answer is not blank.
AnsweredCount(answers) ==
    Len(SelectSeq(answers, LAMBDA a : Strip(a.answer) # <<>>))

\* f"{(answered_count/len(answers))*100:.0f}": the percentage to the nearest
\* integer (no attempt of 3, 5 or 6 questions gives a tie).
CompletionRate(answers) ==
    (200 * AnsweredCount(answers) + Len(answers)) \div (2 * Len(answers))

\* Lines 1038-1071: the metric cards of the completed screen.
Metrics(s) ==
    [total_questions |-> Len(s.answers),
     answered |-> AnsweredCount(s.answers),
     completion_rate |-> CompletionRate(s.answers)]

\* Lines 1198-1207 and 1237-1241: the counts in the head of the full report and
\* in the summary.
ResultsHeader(s) ==
    [total_questions |-> Len(s.answers),
     answered |-> AnsweredCount(s.answers),
     completion_rate |-> CompletionRate(s.answers)]

\* dict.get(key, default)
DictGet(d, key, default) == IF key \in DOMAIN d THEN d[key] ELSE default

NoAnswerProvided ==
    <<"[", "N", "o", " ", "a", "n", "s", "w", "e", "r", " ", "p", "r", "o", "v", "i",
      "d", "e", "d", "]">>

\* Lines 1212-1222: the question blocks of results_text, in the order written;
\* each block shows its number, the question, the time allocated, the time used
\* and the answer.
ResultsBlocks(s) ==
    [i \in 1..Len(s.answers) |->
        LET ans == s.answers[i]
        IN [number |-> i,
            question |-> ans.question,
            time_allocated |-> s.time_limit,
            time_used |-> DictGet(ans, "time_taken", 0),
            answer |-> DictGet(ans, "answer", NoAnswerProvided)]]

\* A reset that puts every key back to its default.
ResetEverything(s) == [SessionDefaults EXCEPT !.mode = s.mode]

\* Lines 1167-1178: the New Interview handler.
ResetInterview(s) ==
    [s EXCEPT !.current_q = None, !.questions = <<>>, !.answers = <<>>,
              !.candidate_name = NoneText, !.start_time = None,
              !.feedback = NoneText, !.paused = FALSE]

\* Lines 1066, 1088, 1204, 1240: what the completed screen and its exports
\* divide by: len(answers) for the completion rate, time_limit for the time
\* ratio of each record (the branch is entered with a record at least).
CompletedDivisors(s) == {Len(s.answers), s.time_limit}

\* Lines 1033-1261: the interview is completed.  A division by zero raises
\* ZeroDivisionError, which ends the run.
Completed(s, clicked) ==
    IF 0 \in CompletedDivisors(s) THEN {Outcome(s, NoDraft, "ZeroDivisionError")} ELSE
    {IF clicked = "new"
     THEN [o EXCEPT !.ss = ResetInterview(o.ss), !.rerun = TRUE, !.handler = "reset"]
     ELSE IF clicked = "analytics"
     THEN [o EXCEPT !.ss = [o.ss EXCEPT !.mode = ModeAnalytics], !.rerun = TRUE,
                    !.handler = "to_analytics"]
     ELSE IF clicked = "practice"
     THEN [o EXCEPT !.ss = [o.ss EXCEPT !.mode = ModePractice], !.rerun = TRUE,
                    !.handler = "to_practice"]
     ELSE o
     : o \in WithFeedback(s)}

\* Lines 868, 899, 1033: the branch of the interview mode the session is in.
Stage(s) ==
    IF s.current_q = None
    THEN "NotStarted"
    ELSE IF s.current_q < Len(s.questions)
    THEN "InProgress"
    ELSE IF s.current_q >= Len(s.questions) /\ s.answers # <<>>
    THEN "Completed"
    ELSE "Blank"

\* Lines 845-1261: the Start Mock Interview mode.
InterviewMode(s, d, clicked) ==
    CASE Stage(s) = "NotStarted" ->
            IF clicked = "start" THEN StartInterview(s)
            ELSE {Outcome(s, NoDraft, "ready")}
      [] Stage(s) = "InProgress" -> InProgress(s, d, clicked)
      [] Stage(s) = "Completed" -> Completed(s, clicked)
      [] OTHER -> {Outcome(s, NoDraft, "blank")}

\* Lines 793 and 815: what the analytics page divides by for the average time
\* and the completion rate.
AnalyticsDivisors(s) == {Len(s.answers)}

\* An analytics page that computes its statistics whatever answers holds.
AnalyticsUnguarded(s) ==
    IF 0 \in AnalyticsDivisors(s)
    THEN {Outcome(s, NoDraft, "ZeroDivisionError")}
    ELSE {Outcome(s, NoDraft, "analytics")}

\* Lines 786-843: the analytics page; the statistics are computed only if
\* answers is not empty.
Analytics(s) ==
    IF s.answers # <<>>
    THEN IF 0 \in AnalyticsDivisors(s)
         THEN {Outcome(s, NoDraft, "ZeroDivisionError")}
         ELSE {Outcome(s, NoDraft, "analytics")}
    ELSE {Outcome(s, NoDraft, "analytics")}

\* A Generate handler that sends the request whatever the topic is.
PracticeWithoutTopicCheck(s, t, clicked) ==
    IF clicked = "generate"
    THEN {[Outcome(s, NoDraft, "generated") EXCEPT !.asked = 1]}
    ELSE {Outcome(s, NoDraft, "practice")}

\* Lines 739-784: the practice page; t is the text of its topic input.  What
\* ask_chat returns is shown and offered for download, and stored nowhere.
Practice(s, t, clicked) ==
    IF clicked = "generate"
    THEN IF Strip(t) = <<>>
         THEN {Outcome(s, NoDraft, "warning")}
         ELSE {[Outcome(s, NoDraft, "generated") EXCEPT !.asked = 1]}
    ELSE {Outcome(s, NoDraft, "practice")}

\* Lines 738-1261: the main content area, by mode.
MainArea(s, d, t, clicked) ==
    IF s.mode = ModePractice
    THEN Practice(s, t, clicked)
    ELSE IF s.mode = ModeAnalytics
    THEN Analytics(s)
    ELSE InterviewMode(s, d, clicked)

\* The whole script.
Script(s, w, d, t, clicked) ==
    IF AutoRefreshActive(s)
    THEN AutoRefresh(s)
    ELSE MainArea(Sidebar(s, w), d, t, clicked)


(***************************************************************************)
(* The state machine: script runs and the passing of time.                 *)
(***************************************************************************)
\* The sidebar as the user has set it up before the first attempt: the widgets
\* start at WidgetDefaults and the user picks among the options.
WidgetChoices ==
    [mode : {ModeInterview}, num_questions : {CountOptions[1]},
     time_limit : {TimeOptions[1]}, category : {CategoryOptions[1]},
     difficulty : DifficultyChoices, auto_refresh : BOOLEAN]

Init ==
    /\ client \in BOOLEAN
    /\ widget \in WidgetChoices
    /\ ss = Sidebar(SessionDefaults, widget)
    /\ changes = 0
    /\ typed = 0
    /\ draft = NoDraft
    /\ now = 1
    /\ rerun = 0
    /\ last = [clicked |-> "none", handler |-> "ready", asked |-> 0]
    /\ topic = <<>>
    /\ adjusted_time = None
    /\ extract_calls = 0
    /\ feedback_calls = 0
    /\ pause_remaining = None
    /\ chat = ChatIdle
    /\ call = NoCall

\* The clock t after dt more units, read up to the horizon.
Later(t, dt) == Min(t + dt, MaxTime)

\* The handlers of a run that rendered the practice page.
PracticeHandlers == {"practice", "warning", "generated"}

\* One run of the script with widgets w, text area d, topic input t and the
\* button clicked.  A widget of a page that was not rendered loses its value.
RunWith(w, d, t, clicked) ==
    \E o \in Script(ss, w, d, t, clicked) :
        /\ ss' = o.ss
        /\ widget' = w
        /\ draft' = o.draft
        /\ now' = Later(now, o.slept * Hz)
        /\ rerun' = IF o.rerun THEN (IF rerun = 1 THEN 2 ELSE 1) ELSE 0
        /\ last' = [clicked |-> clicked, handler |-> o.handler,
                    asked |-> IF o.handler \in PracticeHandlers THEN o.asked ELSE 0]
        /\ topic' = IF o.handler \in PracticeHandlers THEN t ELSE <<>>
        /\ adjusted_time' = IF o.handler = "reset" THEN None ELSE o.adjusted
        /\ extract_calls' = IF o.handler = "start" THEN 0
                            ELSE extract_calls + (IF o.extracted THEN 1 ELSE 0)
        /\ feedback_calls' =
              IF o.handler \in {"start", "reset"} THEN 0
              ELSE Min(feedback_calls + (IF o.requested THEN 1 ELSE 0), MaxFeedbackCalls)
        /\ pause_remaining' = o.pause_rem
        /\ changes' = IF w = widget THEN changes ELSE changes + 1
        /\ typed' = IF d = draft THEN typed ELSE typed + 1
        /\ UNCHANGED <<client, chat, call>>

\* One run of the script with the topic input as the browser holds it.
Run(w, d, clicked) == RunWith(w, d, topic, clicked)

\* The script is idle: the page is rendered and waits for the user.
Idle == rerun = 0

\* The buttons the page shows after the last run.
ButtonsShown ==
    CASE last.handler = "ready" -> {"start"}
      [] last.handler = "question" -> {"submit", "pause", "skip"}
      [] last.handler = "completed" -> {"new", "analytics", "practice"}
      [] OTHER -> {}

\* Time passes while the page waits for the user.  The script reads the clock
\* only while a question is in progress.
Tick ==
    /\ Idle
    /\ ss.current_q # None
    /\ ss.current_q < Len(ss.questions)
    /\ now + TickStep <= MaxTime
    /\ now' = now + TickStep
    /\ UNCHANGED <<client, ss, widget, draft, rerun, last, adjusted_time,
                   extract_calls, feedback_calls, pause_remaining, changes, typed,
                   topic, chat, call>>

\* The run that st.rerun() requested.
Rerun ==
    /\ rerun # 0
    /\ Run(widget, draft, "none")

\* The user clicks a button of the page.
Click(button) ==
    /\ Idle
    /\ button \in ButtonsShown
    /\ Run(widget, draft, button)

\* The user edits the answer text area and leaves it.
TypeAnswer(text) ==
    /\ Idle
    /\ typed < MaxTyped
    /\ draft.q # None
    /\ text # draft.text
    /\ Run(widget, [draft EXCEPT !.text = text], "none")

\* The user changes a widget of the sidebar.
SelectMode(m) ==
    /\ Idle
    /\ changes < MaxChanges
    /\ m # widget.mode
    /\ Run([widget EXCEPT !.mode = m], draft, "none")

SelectCount(n) ==
    /\ Idle
    /\ changes < MaxChanges
    /\ widget.mode = ModeInterview
    /\ n # widget.num_questions
    /\ Run([widget EXCEPT !.num_questions = n], draft, "none")

SelectTime(t) ==
    /\ Idle
    /\ changes < MaxChanges
    /\ widget.mode = ModeInterview
    /\ t # widget.time_limit
    /\ Run([widget EXCEPT !.time_limit = t], draft, "none")

SelectCategory(c) ==
    /\ Idle
    /\ changes < MaxChanges
    /\ widget.mode = ModeInterview
    /\ c # widget.category
    /\ Run([widget EXCEPT !.category = c], draft, "none")

SelectDifficulty(dd) ==
    /\ Idle
    /\ changes < MaxChanges
    /\ widget.mode = ModeInterview
    /\ dd # widget.difficulty
    /\ Run([widget EXCEPT !.difficulty = dd], draft, "none")

\* The checkbox is changed between attempts only.
ToggleLiveTimer ==
    /\ Idle
    /\ changes < MaxChanges
    /\ ss.current_q = None
    /\ widget.mode = ModeInterview
    /\ Run([widget EXCEPT !.auto_refresh = ~widget.auto_refresh], draft, "none")

Buttons == {"start", "submit", "pause", "skip", "new", "analytics", "practice"}

Next ==
    \/ Tick
    \/ Rerun
    \/ \E button \in Buttons : Click(button)
    \/ \E text \in AnswerTexts : TypeAnswer(text)
    \/ \E m \in {ModeOptions[i] : i \in 1..Len(ModeOptions)} : SelectMode(m)
    \/ \E n \in CountChoices : SelectCount(n)
    \/ \E t \in TimeChoices : SelectTime(t)
    \/ \E c \in CategoryChoices : SelectCategory(c)
    \/ \E dd \in DifficultyChoices : SelectDifficulty(dd)
    \/ ToggleLiveTimer

Spec == Init /\ [][Next]_vars

NextChat ==
    \/ \E site \in CallSites : ChatCall(site)
    \/ \E content \in ChatContents : ChatResponse(content)
    \/ \E e \in ChatErrors : ChatException(e)

SpecChat == Init /\ [][NextChat]_vars


\* A request sent by ask_chat is answered or raises (the client library gives
\* up on a request after its own timeout).
ChatAnswered ==
    \/ \E content \in ChatContents : ChatResponse(content)
    \/ \E e \in ChatErrors : ChatException(e)

\* One attempt with the sidebar and the text area left alone; the run that
\* st.rerun() requested is run.
NextAttempt ==
    \/ Tick
    \/ Rerun
    \/ \E button \in Buttons : Click(button)

SpecLive == Init /\ [][NextAttempt]_vars /\ WF_vars(Rerun)

SpecChatLive == Init /\ [][NextChat]_vars /\ WF_vars(ChatAnswered)


\* What the user can enter as the topic of the practice page.
TopicTexts == {<<>>, <<" ">>, <<"a", "n", "n">>}

\* The user edits the topic input of the practice page and leaves it.
TypeTopic(text) ==
    /\ Idle
    /\ last.handler \in PracticeHandlers
    /\ text # topic
    /\ RunWith(widget, draft, text, "none")

\* The user clicks Generate Practice Material.
Generate ==
    /\ Idle
    /\ last.handler \in PracticeHandlers
    /\ Run(widget, draft, "generate")

\* An attempt during which the user turns to the practice page.
NextPractice ==
    \/ NextAttempt
    \/ \E text \in AnswerTexts : TypeAnswer(text)
    \/ \E m \in {ModeOptions[i] : i \in 1..Len(ModeOptions)} : SelectMode(m)
    \/ \E text \in TopicTexts : TypeTopic(text)
    \/ Generate

SpecPractice == Init /\ [][NextPractice]_vars

\* The application whose client could not be initialised (init_openai_client
\* returned None): an attempt, and the calls of ask_chat.
InitNoClient == Init /\ ~client

NextNoClient ==
    \/ NextAttempt
    \/ \E text \in AnswerTexts : TypeAnswer(text)
    \/ \E site \in CallSites : ChatCall(site)

SpecNoClient == InitNoClient /\ [][NextNoClient]_vars

(***************************************************************************)
(* The functions of the script applied on their own, to inputs drawn from  *)
(* bounded sets.                                                           *)
(***************************************************************************)
\* random.shuffle can leave the bank in any order.
Shuffles(bank) ==
    {[i \in 1..Len(bank) |-> bank[p[i]]] : p \in Permutations(1..Len(bank))}

\* Lines 877-880 for a category, a number of questions and a shuffle.
CallSelect(category, num_questions, available_questions) ==
    /\ call = NoCall
    /\ call' = [fn |-> "select", category |-> category,
                num_questions |-> num_questions,
                questions |-> SelectQuestions(available_questions, num_questions)]
    /\ UNCHANGED <<client, sessionVars, chat>>

\* What ask_chat can return to extract_name besides its failure strings: the
\* stripped text of a response of no, one, two or three words.
NameResponses ==
    {<<>>, <<"a", "n", "n">>, <<"o", "-", "L", "E", "n", ".">>, <<".", "1">>, <<"-">>,
     <<"a", "n", "n", " ", "k">>, <<"\"", " ", "a", "n", "n">>,
     <<"n", "o", " ", "o", "n", "e">>, <<"a", " ", "\n", "e", " ", "k">>}

\* extract_name applied to an answer and to what ask_chat returned for it.
CallExtractName(answer_text, name) ==
    /\ call = NoCall
    /\ call' = [fn |-> "extract_name", answer_text |-> answer_text, name |-> name,
                result |-> extract_name(answer_text, name)]
    /\ UNCHANGED <<client, sessionVars, chat>>

\* Responses of the model to a scoring prompt: objects, broken objects, prose.
ScoreResponses ==
    { <<"{", "}">>,
      <<"{", "\"", "s", "\"", ":", "7", "}">>,
      <<"{", "\"", "s", "\"", ":", " ", "7", ",", "\"", "f", "\"", ":", "\"", "o", "k", "\"", "}">>,
      <<"{", "\"", "s", "\"", ":", "7">>,
      <<"{", "\"", "s", "\"", ":", "0", "7", "}">>,
      <<"{", "\"", "s", "\"", ":", "7", "}", " ", "o", "k">>,
      <<"{", "o", "o", "p", "s">>,
      <<"{">>,
      <<"o", "k", " ", "{", "}">>,
      <<"7">>,
      <<>> }

\* One call calculate_score(answer, question, difficulty) whose ask_chat call
\* returned response.
CallScore(answer, difficulty, response) ==
    /\ call = NoCall
    /\ call' = [fn |-> "calculate_score", answer |-> answer, difficulty |-> difficulty,
                response |-> response,
                result |-> calculate_score(answer, difficulty, response)]
    /\ UNCHANGED <<client, sessionVars, chat>>

\* The time limits a session can hold: the sidebar's options, as they are and
\* as the Start handler adjusts them.
TimeLimits ==
    {TimeOptions[i] : i \in 1..Len(TimeOptions)}
    \cup {AdjustedTime(TimeOptions[i], d) : i \in 1..Len(TimeOptions),
                                            d \in DOMAIN DIFFICULTY_LEVELS}

\* Lines 923-935 for a question that started at start_time, read at clock.
CallTimer(time_limit, start_time, clock) ==
    /\ call = NoCall
    /\ call' = [fn |-> "timer", time_limit |-> time_limit,
                elapsed |-> (clock - start_time) \div Hz,
                remaining |-> RemainingAt(time_limit, start_time, clock),
                class |-> TimerClass(RemainingAt(time_limit, start_time, clock))]
    /\ UNCHANGED <<client, sessionVars, chat>>

NextFn ==
    \/ \E category \in DOMAIN QUESTION_CATEGORIES :
          \E n \in {CountOptions[i] : i \in 1..Len(CountOptions)} :
             \E a \in Shuffles(QUESTION_CATEGORIES[category]) :
                CallSelect(category, n, a)
    \/ \E answer_text \in AnswerTexts :
          \E name \in AskChatReturns(2) \cup NameResponses :
             CallExtractName(answer_text, name)
    \/ \E answer \in AnswerTexts :
          \E difficulty \in complexity_map \cup {"Expert"} :
             \E response \in AskChatReturns(3) \cup ScoreResponses :
                CallScore(answer, difficulty, response)
    \/ \E time_limit \in TimeLimits :
          \E clock \in now..MaxClock :
             CallTimer(time_limit, now, clock)

\* The functions do not read the sidebar: one setting of it is enough.
InitFn ==
    /\ Init
    /\ widget.difficulty = DifficultyOptions[1]
    /\ widget.auto_refresh

SpecFn == InitFn /\ [][NextFn]_vars

(***************************************************************************)
(* Properties of the session state machine.                                *)
(***************************************************************************)
\* The step appends exactly one record, for the question in progress, and moves
\* the index on by one.
OneRecordAppended ==
    /\ Stage(ss) = "InProgress"
    /\ ss'.questions = ss.questions
    /\ ss'.current_q = ss.current_q + 1
    /\ Len(ss'.answers) = Len(ss.answers) + 1
    /\ SubSeq(ss'.answers, 1, Len(ss.answers)) = ss.answers
    /\ ss'.answers[Len(ss'.answers)].question = ss.questions[ss.current_q + 1]

\* The step leaves the records and the index alone.
NoRecordAppended ==
    /\ ss'.answers = ss.answers
    /\ ss'.current_q = ss.current_q

\* C1: once the attempt has started, after every event there are as many
\* records as the index says, the index is within 0..len(questions), and the
\* completed branch is the one the script takes exactly when the index equals
\* len(questions).
C1_IndexMatchesAnswers ==
    ss.current_q # None =>
        /\ Len(ss.answers) = ss.current_q
        /\ ss.current_q \in 0..Len(ss.questions)
        /\ (Stage(ss) = "Completed" <=> ss.current_q = Len(ss.questions))

\* C1 witness: the attempt was completed, its last question by a timeout.
C1_Witness ==
    /\ ss.current_q # None
    /\ ss.current_q = Len(ss.questions)
    /\ last.handler = "timeout"
    /\ \E i \in 1..Len(ss.answers) : ss.answers[i].answer = <<>> /\ ss.answers[i].time_taken = 0

\* C2: while a question is in progress, a step appends one record for that
\* question and moves the index by one, or appends nothing and leaves the index;
\* a run whose timer check finds the time up, and a run given a Submit or Skip
\* click (also when both happen in one run), appends exactly one.
C2_Step ==
    /\ Stage(ss) = "InProgress" => OneRecordAppended \/ NoRecordAppended
    /\ last'.handler \in {"timeout", "submit", "skip"} => OneRecordAppended
    /\ last'.clicked \in {"submit", "skip"} => OneRecordAppended

C3_LimitFixedAtStart ==
    ss.current_q # None =>
        /\ adjusted_time = AdjustedTime(widget.time_limit, ss.difficulty) \/ changes > 0
        /\ ss.time_limit = adjusted_time

\* C4 (as claimed): with the live timer on, a question that is in progress, not
\* paused and out of time is left (its record appended) or paused later on.
C4_AutoAdvanceFires ==
    \A i \in 0..2 :
        (/\ Stage(ss) = "InProgress"
         /\ ss.current_q = i
         /\ ~ss.paused
         /\ ss.auto_refresh
         /\ TruthyNum(ss.start_time)
         /\ Remaining(ss) = 0)
        ~> (ss.current_q # i \/ ss.paused)

\* C5: a step taken while the session is paused does not run the timeout
\* handler, and it appends a record or moves the index only for a Submit or
\* Skip click.
C5_Step ==
    (ss.paused /\ Stage(ss) = "InProgress") =>
        /\ last'.handler # "timeout"
        /\ last'.clicked \notin {"submit", "skip"} => NoRecordAppended

C5_NoAutoAdvanceWhilePaused == [][C5_Step]_vars

\* C5 witness: the run that resumed found the session paused and out of time.
C5_Witness ==
    /\ last.handler = "resume"
    /\ Stage(ss) = "InProgress"
    /\ Remaining(ss) = 0

\* C6 (as claimed): right after Resume the remaining time is what it was at
\* Pause (the sidebar not touched in between).
C6_ResumeKeepsRemaining ==
    (last.handler = "resume" /\ changes = 0) => Remaining(ss) = pause_remaining

\* C7 (as claimed): once the attempt is completed, the feedback is requested at
\* most once until Reset.
C7_FeedbackRequestedOnce == feedback_calls <= 1

\* C8: within an attempt extract_name is called at most once, and only by the
\* step that appends the record of question 0, with a non-empty answer, in the
\* Submit or the timeout handler; Skip and the steps of a later question leave
\* candidate_name alone.
C8_Step ==
    /\ extract_calls' <= 1
    /\ extract_calls' > extract_calls =>
          /\ ss.current_q = 0
          /\ OneRecordAppended
          /\ ss'.answers[1].answer # <<>>
          /\ last'.handler \in {"submit", "timeout"}
    /\ (last'.handler = "skip" \/ (Stage(ss) = "InProgress" /\ ss.current_q > 0)) =>
          /\ ss'.candidate_name = ss.candidate_name
          /\ extract_calls' <= extract_calls

C8_NameExtractedOnce == [][C8_Step]_vars

\* C8 witness: the name was extracted from the first answer and later
\* questions were answered.
C8_Witness ==
    /\ extract_calls = 1
    /\ ss.current_q # None
    /\ ss.current_q > 1
    /\ ss.candidate_name = <<"A", "n", "n">>

(***************************************************************************)
(* Properties of ask_chat.                                                 *)
(***************************************************************************)
\* The requests of the call so far, and whether each of them raised.
Requests == Len(SelectSeq(chat.log, LAMBDA x : x = "create"))
AllRaised == Requests = Len(chat.errors)

\* create, sleep, create, ..., create: n requests with a sleep between them.
RequestsWithSleepBetween(n) ==
    [i \in 1..(2 * n - 1) |-> IF i % 2 = 1 THEN "create" ELSE "sleep"]

\* C9: a call all of whose requests raised returns, after max_retries requests
\* with a sleep between two of them and none after the last, a string that
\* holds the failure marker (never None, the value of a loop that ran out).
C9_AllAttemptsFail ==
    /\ (chat.pc = "returned" /\ client /\ AllRaised) =>
          /\ Requests = chat.max_retries
          /\ chat.log = RequestsWithSleepBetween(chat.max_retries)
          /\ chat.ret # NoneText
          /\ Contains(chat.ret, CrossMark)

\* C9 witness: three requests raised and the call returned.
C9_Witness ==
    /\ chat.pc = "returned"
    /\ chat.max_retries = 3
    /\ Len(chat.errors) = 3

\* C10: a call makes at most max_retries <= 3 requests; when it has returned it
\* returned a string, the stripped text of the first request that did not
\* raise (no request after it) or a failure string; and a call that has sent a
\* request returns.
C10_State ==
    /\ chat.max_retries <= 3
    /\ Requests <= chat.max_retries
    /\ chat.pc = "request" => AllRaised /\ chat.attempt = Requests
    /\ chat.pc = "returned" =>
          /\ chat.ret # NoneText
          /\ chat.ret \in AskChatReturns(chat.max_retries)
          /\ client /\ ~AllRaised =>
                /\ Requests = Len(chat.errors) + 1
                /\ chat.log[Len(chat.log)] = "create"
                /\ ~Contains(chat.ret, CrossMark)

C10_CallReturns == []C10_State /\ ((chat.pc = "request") ~> (chat.pc = "returned"))

\* C10 witness: the call returned the text of its third request.
C10_Witness ==
    /\ chat.pc = "returned"
    /\ Len(chat.errors) = 2
    /\ Requests = 3
    /\ chat.ret = <<"a", "n", "n">>

Range(q) == {q[i] : i \in 1..Len(q)}

\* C12: for every category, every number of questions of the sidebar and every
\* order the shuffle leaves, the questions selected are min(num_questions,
\* size of the bank) many, pairwise distinct, and all from that category's bank.
C12_SelectedQuestions ==
    call.fn = "select" =>
        LET bank == QUESTION_CATEGORIES[call.category]
        IN /\ Len(call.questions) = Min(call.num_questions, Len(bank))
           /\ \A i, j \in 1..Len(call.questions) :
                 i # j => call.questions[i] # call.questions[j]
           /\ Range(call.questions) \subseteq Range(bank)

\* C12 witness: 10 questions asked of a bank of 5, which come back in an order
\* that is not the bank's.
C12_Witness ==
    /\ call.fn = "select"
    /\ call.num_questions = 10
    /\ Len(call.questions) = 5
    /\ call.questions # QUESTION_CATEGORIES[call.category]

(***************************************************************************)
(* Properties of the completed screen.                                     *)
(***************************************************************************)
\* C13 (as claimed): the full report of a completed attempt has one question
\* block per record, in the order the questions were presented, each with the
\* record's answer, and with the placeholder where the answer is the empty
\* string.
C13_FullReport ==
    Stage(ss) = "Completed" =>
        LET blocks == ResultsBlocks(ss)
        IN /\ Len(blocks) = Len(ss.answers)
           /\ \A i \in 1..Len(blocks) :
                 /\ blocks[i].number = i
                 /\ blocks[i].question = ss.questions[i]
                 /\ blocks[i].answer = IF ss.answers[i].answer = <<>>
                                       THEN NoAnswerProvided
                                       ELSE ss.answers[i].answer

\* C14: the New Interview handler runs only from the completed branch; it
\* leaves current_q, candidate_name, start_time and feedback None, questions and
\* answers empty and paused False, and it leaves mode, category, difficulty,
\* num_questions and time_limit (the base value the sidebar holds) as they were.
C14_Step ==
    /\ last'.clicked = "new" => Stage(ss) = "Completed" /\ last'.handler = "reset"
    /\ last'.handler = "reset" =>
          /\ Stage(ss) = "Completed"
          /\ ss'.current_q = None
          /\ ss'.candidate_name = NoneText
          /\ ss'.start_time = None
          /\ ss'.feedback = NoneText
          /\ ss'.questions = <<>>
          /\ ss'.answers = <<>>
          /\ ss'.paused = FALSE
          /\ ss'.mode = ss.mode
          /\ ss'.category = ss.category
          /\ ss'.difficulty = ss.difficulty
          /\ ss'.num_questions = ss.num_questions
          /\ ss'.time_limit = ss.time_limit
          /\ ss'.time_limit = widget.time_limit

C14_ResetFrame == [][C14_Step]_vars

\* C14 witness: an attempt in a category the user picked, with a typed answer,
\* has been reset.
C14_Witness ==
    /\ last.handler = "reset"
    /\ ss.current_q = None
    /\ ss.category = CategoryOptions[3]
    /\ typed > 0

\* C15: for an answer that is not blank, extract_name returns "Candidate" when
\* ask_chat returned a failure string, a text of more than two words, or a text
\* whose first word has no letter and no hyphen (or no word at all); in every
\* other case it returns the first word, its letters and hyphens only,
\* title-cased; for a blank answer it returns "Candidate" without a call; it
\* never returns the empty string.
C15_Expected(name) ==
    LET words == Split(name)
        cleaned == IF words = <<>> THEN <<>>
                   ELSE SelectSeq(words[1], LAMBDA c : IsAlpha(c) \/ c = "-")
    IN IF Contains(name, CrossMark) \/ Len(words) > 2 \/ cleaned = <<>>
       THEN Candidate
       ELSE Title(cleaned)

C15_NameResolution ==
    call.fn = "extract_name" =>
        /\ call.result # <<>>
        /\ Strip(call.answer_text) = <<>> => call.result = Candidate
        /\ Strip(call.answer_text) # <<>> => call.result = C15_Expected(call.name)

\* C15 witness: the response "o-LEn." to a typed answer is resolved to
\* "O-Len", the word without its full stop, title-cased.
C15_Witness ==
    /\ call.fn = "extract_name"
    /\ call.name = <<"o", "-", "L", "E", "n", ".">>
    /\ Strip(call.answer_text) # <<>>
    /\ call.result = <<"O", "-", "L", "e", "n">>

\* C16: when an attempt is completed and every record has the empty answer (as
\* when every question was submitted with an empty text area), there is one
\* record per question and the completion rate shown and exported is 0.
C16_AllEmptyIsZero ==
    (Stage(ss) = "Completed" /\ \A i \in 1..Len(ss.answers) : ss.answers[i].answer = <<>>) =>
        /\ Len(ss.answers) = Len(ss.questions)
        /\ \A i \in 1..Len(ss.answers) : ss.answers[i].question = ss.questions[i]
        /\ Metrics(ss).completion_rate = 0
        /\ Metrics(ss).answered = 0
        /\ ResultsHeader(ss).completion_rate = 0

\* C16 witness: a General attempt of 3 questions, nothing typed, completed by
\* a Submit, with 3 empty records.
C16_Witness ==
    /\ Stage(ss) = "Completed"
    /\ last.handler = "submit"
    /\ typed = 0
    /\ ss.category = "General"
    /\ Len(ss.answers) = 3
    /\ \A i \in 1..3 : ss.answers[i].answer = <<>>

\* C17 (as claimed): the record the timeout handler appends for question i has
\* the text the answer text area holds for question i (the text just typed when
\* the run is the one that delivers an edit) and time_taken equal to the time
\* limit the Start handler computed.
C17_Step ==
    last'.handler = "timeout" =>
        LET record == ss'.answers[Len(ss'.answers)]
        IN /\ record.question = ss.questions[ss.current_q + 1]
           /\ \/ record.answer = TextArea(draft, ss.current_q, ss.difficulty)
              \/ typed' > typed /\ record.answer \in AnswerTexts
           /\ record.time_taken = adjusted_time

C17_TimedOutRecord == [][C17_Step]_vars

\* C18: the Skip handler appends one record for the question in progress, with
\* the empty answer whatever the text area holds and with time_taken the whole
\* seconds between start_time and the clock, moves current_q on by one and sets
\* start_time to the clock.
C18_Step ==
    last'.handler = "skip" =>
        LET record == ss'.answers[Len(ss'.answers)]
        IN /\ last'.clicked = "skip"
           /\ OneRecordAppended
           /\ record.answer = <<>>
           /\ record.time_taken = (now - ss.start_time) \div Hz
           /\ ss'.start_time = now
           /\ now' = now

C18_SkipRecord == [][C18_Step]_vars

\* C18 witness: a question with a typed answer has been skipped after some
\* time, before its time was up.
C18_Witness ==
    /\ last.handler = "skip"
    /\ draft.text = <<"a", "n", "n">>
    /\ ss.answers[Len(ss.answers)].answer = <<>>
    /\ ss.answers[Len(ss.answers)].time_taken > 0
    /\ ss.answers[Len(ss.answers)].time_taken < ss.time_limit

\* What a session could hold of an earlier attempt besides what s holds:
\* records, a name, a feedback, the paused flag.
Leftovers(s) ==
    {[s EXCEPT !.answers = a, !.candidate_name = n, !.feedback = f, !.paused = p]
        : a \in {<<>>, <<AnswerRecord(<<"G", "1">>, <<"G", "1">>, <<"a", "n", "n">>, 7, s)>>},
          n \in {NoneText, Candidate},
          f \in {NoneText, <<>>, UnavailableString},
          p \in BOOLEAN}

\* The session as the Start handler has to leave it.
Started(s) ==
    /\ s.answers = <<>>
    /\ s.candidate_name = NoneText
    /\ s.feedback = NoneText
    /\ s.current_q = 0
    /\ s.paused = FALSE
    /\ s.start_time = now

\* C19: the Start handler runs only when current_q is None, and it leaves
\* answers empty, candidate_name and feedback None, current_q 0, paused False
\* and start_time the clock, for the session it ran in and for every session
\* with leftovers of an earlier attempt it could have run in.
C19_Step ==
    (last'.clicked = "start" \/ last'.handler = "start") =>
        /\ ss.current_q = None
        /\ last'.clicked = "start" /\ last'.handler = "start"
        /\ now' = now
        /\ Started(ss')
        /\ \A s \in Leftovers(ss) : \A o \in StartInterview(s) : Started(o.ss)

C19_StartClears == [][C19_Step]_vars

\* C19 witness: a second attempt has been started, after one in which an
\* answer was typed.
C19_Witness ==
    /\ last.handler = "start"
    /\ typed > 0
    /\ ss.current_q = 0
    /\ ss.answers = <<>>

(***************************************************************************)
(* C20: calculate_score parses the response as an object only if it starts *)
(* with "{", and returns {score: 5, feedback: the raw response text} both  *)
(* when the response does not start with "{" and when it starts with "{"   *)
(* but fails to parse; no error reaches the caller in either case.         *)
(***************************************************************************)
C20_RawTextFallback ==
    (/\ call.fn = "calculate_score"
     /\ Strip(call.answer) # <<>>
     /\ call.difficulty \in complexity_map) =>
        IF StartsWithBrace(call.response) /\ JsonLoads(call.response).ok
        THEN call.result = [parsed |-> TRUE, object |-> JsonLoads(call.response).value]
        ELSE call.result = [parsed |-> FALSE, score |-> 5, feedback |-> call.response]

(***************************************************************************)
(* Properties of the practice page.                                        *)
(***************************************************************************)
\* C21: a Generate click with an empty or blank topic ends in the warning with
\* no call of ask_chat, and the run leaves questions, answers, current_q,
\* candidate_name, feedback and paused as they were.
C21_Step ==
    (last'.clicked = "generate" /\ Strip(topic') = <<>>) =>
        /\ last'.handler = "warning"
        /\ last'.asked = 0
        /\ feedback_calls' = feedback_calls /\ extract_calls' = extract_calls
        /\ ss'.questions = ss.questions
        /\ ss'.answers = ss.answers
        /\ ss'.current_q = ss.current_q
        /\ ss'.candidate_name = ss.candidate_name
        /\ ss'.feedback = ss.feedback
        /\ ss'.paused = ss.paused

C21_BlankTopicRejected == [][C21_Step]_vars

\* C21 witness: a blank topic was rejected while a paused attempt held a
\* record and a name.
C21_Witness ==
    /\ last.clicked = "generate"
    /\ last.handler = "warning"
    /\ topic = <<" ">>
    /\ ss.paused
    /\ ss.answers # <<>>
    /\ ss.candidate_name # NoneText

(***************************************************************************)
(* Properties of the timer display.                                        *)
(***************************************************************************)
\* C22: the remaining time shown is max(0, time limit - elapsed), never
\* negative, and the class of the display depends on it alone: normal above
\* 30, warning above 10 and up to 30, danger from 0 to 10.
C22_TimerBands ==
    call.fn = "timer" =>
        /\ call.remaining >= 0
        /\ call.remaining = Max(0, call.time_limit - call.elapsed)
        /\ call.class = "timer-normal" <=> call.remaining > 30
        /\ call.class = "timer-warning" <=> (10 < call.remaining /\ call.remaining <= 30)
        /\ call.class = "timer-danger" <=> (0 <= call.remaining /\ call.remaining <= 10)

\* C22 witness: 30 seconds remain of a limit of 72, and the display is the
\* warning one.
C22_Witness ==
    /\ call.fn = "timer"
    /\ call.time_limit = 72
    /\ call.remaining = 30
    /\ call.class = "timer-warning"

(***************************************************************************)
(* Properties of the records of an attempt.                                *)
(***************************************************************************)
\* a is b, or b with one more record at its end.
IsPrefixByAtMostOne(a, b) ==
    /\ Len(b) \in {Len(a), Len(a) + 1}
    /\ SubSeq(b, 1, Len(a)) = a

\* C23: a step other than the Reset and the Start handler leaves every record
\* as it is and appends at most one (and leaves the questions as they are);
\* and record k is always the record of question k of the attempt.
C23_Step ==
    last'.handler \notin {"reset", "start"} =>
        /\ IsPrefixByAtMostOne(ss.answers, ss'.answers)
        /\ ss'.questions = ss.questions

C23_Ordered ==
    /\ Len(ss.answers) <= Len(ss.questions)
    /\ \A k \in 1..Len(ss.answers) : ss.answers[k].question = ss.questions[k]

C23_AppendOnlyInOrder == []C23_Ordered /\ [][C23_Step]_vars

\* C23 witness: an attempt of three records, the first with a name in it, the
\* later ones displayed with the name, one of them at least timed out.
C23_Witness ==
    /\ Len(ss.answers) = 3
    /\ ss.candidate_name = <<"A", "n", "n">>
    /\ ss.answers[2].display_question # ss.answers[2].question
    /\ ss.answers[3].display_question # ss.answers[3].question
    /\ \E k \in 2..3 : ss.answers[k].time_taken = ss.time_limit
    /\ \E k \in 2..3 : ss.answers[k].answer = <<>> /\ ss.answers[k].time_taken < ss.time_limit

(***************************************************************************)
(* Properties of the runs of the script during a question.                 *)
(***************************************************************************)
\* The handlers of a run that reached the branch of the question in progress
\* (lines 899-1030): it rendered the controls or handled one of them.
ControlHandlers == {"question", "timeout", "submit", "skip", "pause", "resume"}

\* C24 (as claimed): once a question is in progress and a run has been
\* requested (by Start or by the auto-refresh), a later run reaches the
\* controls of the question.
C24_ControlsReached ==
    (Stage(ss) = "InProgress" /\ last.handler \in {"start", "refresh"})
        ~> (last.handler \in ControlHandlers)

\* C25 (as claimed): every record of an attempt has a time_taken from 0 to the
\* time limit the Start handler computed for the attempt.
C25_TimeTakenWithinLimit ==
    ss.current_q # None =>
        \A k \in 1..Len(ss.answers) :
            /\ 0 <= ss.answers[k].time_taken
            /\ ss.answers[k].time_taken <= adjusted_time

\* C26: the Submit and the Skip handler leave paused as it was and set
\* start_time to the clock; paused changes in the Pause/Resume, the Start and
\* the Reset handler only; and a run that finds the session paused neither
\* sleeps for the auto-refresh nor runs the timeout handler.
C26_Step ==
    /\ last'.handler \in {"submit", "skip"} =>
          /\ ss'.paused = ss.paused
          /\ ss'.start_time = now
    /\ ss'.paused # ss.paused => last'.handler \in {"pause", "resume", "start", "reset"}
    /\ ss.paused => last'.handler \notin {"timeout", "refresh"}

C26_PausedAcrossQuestions == [][C26_Step]_vars

\* C26 witness: the first question was left by Submit or Skip while paused, and
\* the second one is on the page, still paused, its time used up.
C26_Witness ==
    /\ ss.paused
    /\ ss.current_q = 1
    /\ Len(ss.answers) = 1
    /\ last.handler = "question"
    /\ typed > 0
    /\ Remaining(ss) = 0

\* C27 (as claimed): the question of every record is from the bank of the
\* category the record carries, and all records of an attempt carry one
\* category and one difficulty (those selected at Start).
C27_RecordsCarryStartSettings ==
    \A k \in 1..Len(ss.answers) :
        /\ ss.answers[k].question \in Range(QUESTION_CATEGORIES[ss.answers[k].category])
        /\ ss.answers[k].category = ss.answers[1].category
        /\ ss.answers[k].difficulty = ss.answers[1].difficulty

(***************************************************************************)
(* Properties of the completed screen and the analytics page.              *)
(***************************************************************************)
\* C28: no run ends in a ZeroDivisionError; whenever the next run would show
\* the completed screen (whose exports are built in the same run) or the
\* statistics of the analytics page, answers holds a record at least, and the
\* time limit the time ratio is computed with is positive.
C28_NoDivisionByZero ==
    LET s == Sidebar(ss, widget)
    IN /\ last.handler # "ZeroDivisionError"
       /\ (s.mode = ModeInterview /\ Stage(s) = "Completed") =>
             /\ Len(s.answers) >= 1
             /\ s.time_limit > 0
             /\ 0 \notin CompletedDivisors(s)
       /\ (s.mode = ModeAnalytics /\ s.answers # <<>>) =>
             /\ Len(s.answers) >= 1
             /\ 0 \notin AnalyticsDivisors(s)
       /\ ss.time_limit > 0

\* C28 witness: the analytics page has shown the statistics of a completed
\* attempt, one of whose records has time_taken 0.
C28_Witness ==
    /\ last.handler = "analytics"
    /\ ss.mode = ModeAnalytics
    /\ Stage(ss) = "Completed"
    /\ \E k \in 1..Len(ss.answers) : ss.answers[k].time_taken = 0

\* C29 (as claimed): the run that follows a View Analytics (Practice Mode)
\* click on the completed screen shows the analytics (practice) page, and the
\* records of the attempt are still in the session.
C29_Step ==
    /\ last.handler = "to_analytics" =>
          /\ last'.handler = "analytics"
          /\ ss'.mode = ModeAnalytics
          /\ ss'.answers = ss.answers /\ ss.answers # <<>>
    /\ last.handler = "to_practice" =>
          /\ last'.handler = "practice"
          /\ ss'.mode = ModePractice
          /\ ss'.answers = ss.answers /\ ss.answers # <<>>

C29_ModeButtons == [][C29_Step]_vars

============================================================================
